---- MODULE Spec2Model ----
(***************************************************************************)
(* State-machine model of the virtual-doorman agents of this repository:   *)
(*   src/c.py  multi-agent doorman, UserData.current_agent bookkeeping     *)
(*   src/d.py  multi-agent doorman, prev_agent + context carried on enter  *)
(*   src/e.py  single-agent doorman (VirtualDoorman)                       *)
(*   src/a.py  doorman with metrics, transcript log and error decorators   *)
(* Each program has its own variables and its own specification           *)
(* (SpecC, SpecD, SpecE, SpecA); a specification leaves the other          *)
(* programs' variables unchanged.  SpecT applies the context construction  *)
(* of src/d.py on_enter to prior histories drawn from a bounded set, SpecS *)
(* applies summarize to drawn field values, SpecC2 runs two sessions of    *)
(* src/c.py, SpecL runs the tools of src/e.py statement by statement on    *)
(* the event loop, SpecG runs ConversationLogger of src/a.py on its files. *)
(*                                                                         *)
(* Python values: None is the string "None"; "" is the empty string; a     *)
(* tool's return value is a record [kind, message(, target)] where kind    *)
(* is "reply" for a str or a {"message": ...} dict, "handoff" for an       *)
(* (Agent, str) tuple, and "none" for a call that returns None.            *)
(***************************************************************************)
EXTENDS Integers, Sequences, FiniteSets, TLC

VARIABLES
    \* ---- src/e.py: VirtualDoorman ----
    doorman,        \* the agent's fields (e.py:34-39)
    e_call,         \* the last tool call: [tool, a, b]
    e_result,       \* what that call returned
    e_effects,      \* the side effects that call performed (_open_door, _send_sms)
    \* ---- src/c.py ----
    c_userdata,     \* UserData fields incl. current_agent (c.py:26-32)
    c_agent,        \* the session's active agent (agent.start / returned Agent)
    c_result,       \* what the last tool call returned
    c_turn,         \* the turn loop: [phase, steps]
    mock_db,        \* the module-level mock database (c.py:16-23)
    c_peer,         \* a second session of c.py in the same process:
                    \* [userdata, agent, result, turn]
    \* ---- src/d.py ----
    d_userdata,     \* UserData fields incl. prev_agent (d.py:25-32)
    d_agent,        \* context.session.current_agent
    chat_ctx,       \* each agent's chat_ctx.items
    next_id,        \* the id the next created chat item gets
    d_turn,         \* the turn loop: [phase, steps, hops, capped, dropped]
    d_result,       \* what the last tool call returned
    d_entered,      \* on_enter's record of the last handoff: [dest, prior, carried]
    \* ---- context construction on drawn inputs ----
    t_prior,        \* the prior agent's chat items
    t_dest,         \* the entered agent's chat items before on_enter
    t_carried,      \* the items on_enter carries over
    t_ctx,          \* the context on_enter builds
    t_done,
    \* ---- src/a.py ----
    a_phase,        \* the job: "new", "prewarmed", "started", "running", "closed",
                    \* "failed" (before session.start), "start_failed"
    a_userdata,     \* DoormanData (a.py:63-70)
    a_agent,        \* the session's active agent (class name)
    a_room,         \* ctx.room: "none", "connected", "disconnected"
    a_log,          \* the lines of the session's transcript file
    a_metrics,      \* api_metrics: per call name the counters and the durations observed
    a_call,         \* the last call of a decorated function: [n, tool, arg, outcome]
    a_result,       \* what that call returned
    a_usage,        \* usage_collector: the metrics events collected
    \* ---- UserData.summarize on drawn field values ----
    s_u1, s_u2,     \* two UserData states
    s_digest1,      \* summarize() of each
    s_digest2,
    s_done,
    \* ---- src/e.py: the tools statement by statement on the session's event loop ----
    l_doorman,      \* the agent's fields (e.py:34-39)
    l_tasks,        \* the tool coroutines in flight: [tool, pc, a, b]
    l_inbox,        \* user inputs that have arrived and are not yet applied
    l_applied,      \* user inputs applied so far
    l_turn,         \* an applied input awaits its reply
    l_session,      \* "open", "closing" (teardown requested), "closed"
    l_effects,      \* side effects performed: [effect, closing]
    l_pending,      \* the returned reply not yet delivered
    l_delivered,    \* replies delivered
    l_aborted,      \* tool coroutines cancelled before they returned
    \* ---- src/a.py: ConversationLogger on the files of CONVERSATION_LOG_DIR ----
    g_files,        \* per session id the transcript file: [exists, lines]
    g_clock,        \* the wall clock (time.time / time.gmtime)
    g_op            \* the last operation, and the loggers constructed per session id:
                    \* [op, session_id, loggers]

vars == << doorman, e_call, e_result, e_effects,
           c_userdata, c_agent, c_result, c_turn, mock_db, c_peer,
           d_userdata, d_agent, chat_ctx, next_id, d_turn, d_result, d_entered,
           t_prior, t_dest, t_carried, t_ctx, t_done,
           a_phase, a_userdata, a_agent, a_room, a_log, a_metrics, a_call, a_result,
           a_usage,
           s_u1, s_u2, s_digest1, s_digest2, s_done,
           l_doorman, l_tasks, l_inbox, l_applied, l_turn, l_session, l_effects,
           l_pending, l_delivered, l_aborted,
           g_files, g_clock, g_op >>

e_vars == << doorman, e_call, e_result, e_effects >>
c_vars == << c_userdata, c_agent, c_result, c_turn, mock_db >>
d_vars == << d_userdata, d_agent, chat_ctx, next_id, d_turn, d_result, d_entered >>
t_vars == << t_prior, t_dest, t_carried, t_ctx, t_done >>
a_vars == << a_phase, a_userdata, a_agent, a_room, a_log, a_metrics, a_call, a_result,
            a_usage >>
s_vars == << s_u1, s_u2, s_digest1, s_digest2, s_done >>
p_vars == << c_peer >>
l_vars == << l_doorman, l_tasks, l_inbox, l_applied, l_turn, l_session, l_effects,
             l_pending, l_delivered, l_aborted >>
g_vars == << g_files, g_clock, g_op >>

\* What the steps of one program leave unchanged: the other programs' state.
e_frame == << c_vars, p_vars, d_vars, t_vars, a_vars, s_vars, l_vars, g_vars >>
c_frame == << e_vars, p_vars, d_vars, t_vars, a_vars, s_vars, l_vars, g_vars >>
d_frame == << e_vars, c_vars, p_vars, t_vars, a_vars, s_vars, l_vars, g_vars >>
t_frame == << e_vars, c_vars, p_vars, d_vars, a_vars, s_vars, l_vars, g_vars >>
a_frame == << e_vars, c_vars, p_vars, d_vars, t_vars, s_vars, l_vars, g_vars >>
s_frame == << e_vars, c_vars, p_vars, d_vars, t_vars, a_vars, l_vars, g_vars >>
\* The second session of c.py shares mock_db with the first and nothing else.
p_frame == << e_vars, c_userdata, c_agent, c_result, c_turn,
              d_vars, t_vars, a_vars, s_vars, l_vars, g_vars >>
l_frame == << e_vars, c_vars, p_vars, d_vars, t_vars, a_vars, s_vars, g_vars >>
g_frame == << e_vars, c_vars, p_vars, d_vars, t_vars, a_vars, s_vars, l_vars >>

None == "None"

\* Python truthiness of an Optional[str]: `if not x` is taken for None and "".
Truthy_m(x) == x # None
Truthy(x) == x # None /\ x # ""

Reply(m) == [kind |-> "reply", message |-> m]
Handoff(t, m) == [kind |-> "handoff", target |-> t, message |-> m]
NoneResult == [kind |-> "none", message |-> None]
NoCall == [kind |-> "nocall", message |-> None]

(***************************************************************************)
(* src/e.py: VirtualDoorman                                                *)
(***************************************************************************)
AllowedPurposes == {"visitor", "delivery", "maintenance", "rental"}

\* The argument values the reasoning engine may pass.
Purposes == AllowedPurposes \cup {"party"}
Names == {None, "", "John Doe", "Jane Smith"}
Apartments == {None, "", "A101", "B202"}
VisitorNames == {None, "", "Alice"}
Reasons == {None, "", "package drop-off"}
Issues == {None, "", "leaking tap"}

DoormanInit ==
    [current_purpose |-> None, resident_name |-> None, apartment_number |-> None,
     visitor_name |-> None, reason |-> None, maintenance_issue |-> None]

check_resident_db(name, apartment) == TRUE

reset_session_data_m(d) ==
    [d EXCEPT !.resident_name = None, !.apartment_number = None]
reset_session_data(d) ==
    [d EXCEPT !.resident_name = None, !.apartment_number = None,
              !.visitor_name = None, !.reason = None, !.maintenance_issue = None]

reset_resident_data(d) ==
    [d EXCEPT !.resident_name = None, !.apartment_number = None]

Sms(number, d) ==
    [effect |-> "sms", to |-> number,
     name |-> d.resident_name, apartment |-> d.apartment_number]
OpenDoor == [effect |-> "door", to |-> None, name |-> None, apartment |-> None]

handle_purpose(purpose) ==
    /\ e_call' = [tool |-> "handle_purpose", a |-> purpose, b |-> None]
    /\ e_effects' = {}
    /\ IF purpose \notin AllowedPurposes
       THEN /\ doorman' = doorman
            /\ e_result' = Reply("Invalid purpose. Please choose from visitor/delivery/maintenance/rental")
       ELSE /\ doorman' = reset_session_data([doorman EXCEPT !.current_purpose = purpose])
            /\ e_result' =
                 CASE purpose = "visitor" -> Reply("Visiting a resident. Please provide resident's FULL NAME")
                   [] purpose = "delivery" -> Reply("Making a delivery. Please provide resident's FULL NAME")
                   [] purpose = "maintenance" -> Reply("Reporting maintenance. Please describe the issue")
                   [] purpose = "rental" -> Reply("Rental inquiry. Please wait while I check vacancies...")
                   [] OTHER -> NoneResult

collect_resident_info(name, apartment) ==
    /\ e_call' = [tool |-> "collect_resident_info", a |-> name, b |-> apartment]
    /\ IF ~Truthy(name)
       THEN /\ doorman' = doorman
            /\ e_effects' = {}
            /\ e_result' = Reply("Please provide resident's FULL NAME")
       ELSE IF ~Truthy(apartment)
       THEN /\ doorman' = [doorman EXCEPT !.resident_name = name]
            /\ e_effects' = {}
            /\ e_result' = Reply("Please provide apartment NUMBER")
       ELSE IF ~check_resident_db(name, apartment)
       THEN /\ doorman' = reset_resident_data(doorman)
            /\ e_effects' = {}
            /\ e_result' = Reply("Resident not found. Please check name and apartment number")
       ELSE /\ doorman' = [doorman EXCEPT !.resident_name = name,
                                          !.apartment_number = apartment]
            /\ IF doorman.current_purpose = "visitor"
               THEN /\ e_effects' = {}
                    /\ e_result' = Reply("Resident verified. Please provide VISITOR NAME and REASON for visit")
               ELSE IF doorman.current_purpose = "delivery"
               THEN /\ e_effects' = {OpenDoor}
                    /\ e_result' = Reply("Delivery approved. Door opened. Have a nice day!")
               ELSE /\ e_effects' = {}
                    /\ e_result' = NoneResult

handle_visitor_details(visitor_name, reason) ==
    /\ e_call' = [tool |-> "handle_visitor_details", a |-> visitor_name, b |-> reason]
    /\ IF ~Truthy(visitor_name)
       THEN /\ doorman' = doorman
            /\ e_effects' = {}
            /\ e_result' = Reply("Please provide VISITOR NAME")
       ELSE IF ~Truthy(reason)
       THEN /\ doorman' = [doorman EXCEPT !.visitor_name = visitor_name]
            /\ e_effects' = {}
            /\ e_result' = Reply("Please provide REASON for visit")
       ELSE /\ doorman' = doorman
            /\ e_effects' = {Sms("RESIDENT_PHONE", doorman)}
            /\ e_result' = Reply("Resident notified. They'll be with you shortly. Thank you!")

handle_maintenance(issue) ==
    /\ e_call' = [tool |-> "handle_maintenance", a |-> issue, b |-> None]
    /\ doorman' = doorman
    /\ e_effects' = {}
    /\ IF ~Truthy(issue)
       THEN e_result' = Reply("Please describe the MAINTENANCE ISSUE")
       ELSE e_result' = Reply("Maintenance request recorded. Technician will contact resident shortly")

handle_rental ==
    /\ e_call' = [tool |-> "handle_rental", a |-> None, b |-> None]
    /\ doorman' = doorman
    /\ e_effects' = {[effect |-> "sms", to |-> "OWNER_PHONE", name |-> None, apartment |-> None]}
    /\ e_result' = Reply("Current vacancies: A101, B202, C303. Owner has been notified. Thank you!")

InitE ==
    /\ doorman = DoormanInit
    /\ e_call = [tool |-> "none", a |-> None, b |-> None]
    /\ e_result = NoCall
    /\ e_effects = {}

NextE ==
    \/ \E p \in Purposes : handle_purpose(p) /\ UNCHANGED e_frame
    \/ \E n \in Names, a \in Apartments :
         collect_resident_info(n, a) /\ UNCHANGED e_frame
    \/ \E v \in VisitorNames, r \in Reasons :
         handle_visitor_details(v, r) /\ UNCHANGED e_frame
    \/ \E i \in Issues : handle_maintenance(i) /\ UNCHANGED e_frame
    \/ handle_rental /\ UNCHANGED e_frame

(***************************************************************************)
(* The agent registry of src/c.py and src/d.py                             *)
(***************************************************************************)
AgentIds == {"main", "visitor", "delivery", "maintenance", "rental"}
EntryAgent == "main"
Specialists == AgentIds \ {EntryAgent}

\* Argument values for the str-typed tool parameters of c.py and d.py.
ResidentArgs == {"John Doe", "Bob Ray"}
ApartmentArgs == {"A101", "Z999"}
Descriptions == {"leaking tap"}

(***************************************************************************)
(* src/c.py                                                                *)
(***************************************************************************)
MaxRequests == 2
max_tool_steps == 5

\* The session (AgentSession(max_tool_steps=5), c.py:183, d.py:215) dispatches
\* a requested tool call only below max_tool_steps tool steps in a turn.
may_dispatch_m(steps) == steps <= max_tool_steps
may_dispatch(steps) == steps < max_tool_steps

NoCallYet == [kind |-> "nocall", message |-> << >>]

Residents == { << "John Doe", "A101" >>, << "Jane Smith", "B202" >> }

\* The agents table entrypoint fills (c.py:168-175, d.py:200-207): one
\* instance per id; an instance is named by the id it was registered under.
AgentsTable == [id \in AgentIds |-> id]

\* What _transfer_to_agent does to the table: it reads agents[name]
\* (c.py:48, d.py:73) and writes no entry.
agents_after_m(agents, name) == [agents EXCEPT ![name] = EntryAgent]
agents_after(agents, name) == agents

UserDataCInit ==
    [resident_name |-> None, apartment_number |-> None, visitor_name |-> None,
     visit_reason |-> None, maintenance_needs |-> None, current_agent |-> None,
     agents |-> AgentsTable]

c_Dispatching == c_turn.phase = "turn" /\ may_dispatch(c_turn.steps)

\* The agents the tools of each agent class of c.py transfer to: MainAgent has
\* to_visitor_agent .. to_rental_agent (c.py:60-78); the four specialist
\* classes (c.py:80-163) define no tool that calls _transfer_to_agent.
c_TransferTargets(a) == IF a = "main" THEN Specialists ELSE {}

\* BaseAgent._transfer_to_agent of c.py; the returned Agent becomes the
\* session's active agent.
c_transfer_to_agent(name) ==
    /\ c_Dispatching
    /\ name \in DOMAIN c_userdata.agents
    /\ c_userdata' = [c_userdata EXCEPT !.current_agent = name,
                                        !.agents = agents_after(@, name)]
    /\ c_agent' = c_userdata.agents[name]
    /\ c_result' = Handoff(name, << "Transferring to", name, "agent" >>)
    /\ c_turn' = [c_turn EXCEPT !.steps = @ + 1]
    /\ UNCHANGED mock_db

c_collect_resident_info(name, apartment) ==
    /\ c_Dispatching
    /\ c_agent = "visitor"
    /\ c_userdata' = [c_userdata EXCEPT !.resident_name = name,
                                        !.apartment_number = apartment]
    /\ c_result' = Reply(<< "Recorded resident", name, "in apartment", apartment >>)
    /\ c_turn' = [c_turn EXCEPT !.steps = @ + 1]
    /\ UNCHANGED << c_agent, mock_db >>

\* VisitorAgent.check_resident (c.py:100-110): a lookup in mock_db["residents"]
\* by the recorded name and apartment; it writes nothing.
check_resident_m ==
    /\ c_Dispatching
    /\ c_agent = "visitor"
    /\ IF << c_userdata.resident_name, c_userdata.apartment_number >> \in mock_db.residents
       THEN /\ c_result' = Reply(<< "Resident verified. SMS sent. Please wait for the resident to approve your visit." >>)
            /\ UNCHANGED << c_userdata, c_agent >>
       ELSE /\ c_result' = Reply(<< "Resident not found. Please check the information and try again." >>)
            /\ c_userdata' = [c_userdata EXCEPT !.current_agent = EntryAgent]
            /\ c_agent' = EntryAgent
    /\ c_turn' = [c_turn EXCEPT !.steps = @ + 1]
    /\ UNCHANGED mock_db
check_resident ==
    /\ c_Dispatching
    /\ c_agent = "visitor"
    /\ c_result' =
         IF << c_userdata.resident_name, c_userdata.apartment_number >> \in mock_db.residents
         THEN Reply(<< "Resident verified. SMS sent. Please wait for the resident to approve your visit." >>)
         ELSE Reply(<< "Resident not found. Please check the information and try again." >>)
    /\ c_turn' = [c_turn EXCEPT !.steps = @ + 1]
    /\ UNCHANGED << c_userdata, c_agent, mock_db >>

c_verify_delivery ==
    /\ c_Dispatching
    /\ c_agent = "delivery"
    /\ c_result' =
         IF << c_userdata.resident_name, c_userdata.apartment_number >> \in mock_db.residents
         THEN Reply(<< "Delivery verified. Main door opened. Please leave package in lobby." >>)
         ELSE Reply(<< "Recipient not found. Please check the information." >>)
    /\ c_turn' = [c_turn EXCEPT !.steps = @ + 1]
    /\ UNCHANGED << c_userdata, c_agent, mock_db >>

log_maintenance(description) ==
    /\ c_Dispatching
    /\ c_agent = "maintenance"
    /\ Len(mock_db.maintenance_requests) < MaxRequests
    /\ c_userdata' = [c_userdata EXCEPT !.maintenance_needs = description]
    /\ mock_db' = [mock_db EXCEPT !.maintenance_requests = Append(@, description)]
    /\ c_result' = Reply(<< "Request logged. Maintenance team will contact you shortly." >>)
    /\ c_turn' = [c_turn EXCEPT !.steps = @ + 1]
    /\ UNCHANGED c_agent

c_list_vacancies ==
    /\ c_Dispatching
    /\ c_agent = "rental"
    /\ c_result' = Reply(<< "Available apartments:" >> \o mock_db.vacant_apartments)
    /\ c_turn' = [c_turn EXCEPT !.steps = @ + 1]
    /\ UNCHANGED << c_userdata, c_agent, mock_db >>

\* The turn loop of the session: a user input opens a turn; the reasoning
\* engine then answers in plain text, which ends the turn, or requests a tool
\* call of the active agent; a request at the cap is not dispatched.
c_UserTurn ==
    /\ c_turn.phase = "idle"
    /\ c_turn' = [phase |-> "turn", steps |-> 0]
    /\ UNCHANGED << c_userdata, c_agent, c_result, mock_db >>

c_PlainReply ==
    /\ c_turn.phase = "turn"
    /\ c_turn' = [c_turn EXCEPT !.phase = "idle"]
    /\ c_result' = Reply(<< "reply" >>)
    /\ UNCHANGED << c_userdata, c_agent, mock_db >>

c_CapReached ==
    /\ c_turn.phase = "turn"
    /\ ~may_dispatch(c_turn.steps)
    /\ c_turn' = [c_turn EXCEPT !.phase = "idle"]
    /\ UNCHANGED << c_userdata, c_agent, c_result, mock_db >>

\* entrypoint (c.py:165-190) run for another job: its own UserData, agents and
\* AgentSession; mock_db is the module's.
PeerInit ==
    [userdata |-> UserDataCInit, agent |-> EntryAgent, result |-> NoCallYet,
     turn |-> [phase |-> "idle", steps |-> 0]]

\* entrypoint of c.py: UserData() with the agents table, session started on
\* agents["main"].
InitC ==
    /\ c_userdata = UserDataCInit
    /\ c_agent = EntryAgent
    /\ c_result = NoCallYet
    /\ c_turn = [phase |-> "idle", steps |-> 0]
    /\ mock_db = [residents |-> Residents,
                  vacant_apartments |-> << "C303", "D404" >>,
                  maintenance_requests |-> << >>]
    /\ c_peer = PeerInit

NextC ==
    \/ c_UserTurn /\ UNCHANGED c_frame
    \/ c_PlainReply /\ UNCHANGED c_frame
    \/ c_CapReached /\ UNCHANGED c_frame
    \/ \E a \in c_TransferTargets(c_agent) :
         c_transfer_to_agent(a) /\ UNCHANGED c_frame
    \/ \E n \in ResidentArgs, a \in ApartmentArgs :
         c_collect_resident_info(n, a) /\ UNCHANGED c_frame
    \/ check_resident /\ UNCHANGED c_frame
    \/ c_verify_delivery /\ UNCHANGED c_frame
    \/ \E d \in Descriptions : log_maintenance(d) /\ UNCHANGED c_frame
    \/ c_list_vacancies /\ UNCHANGED c_frame

(***************************************************************************)
(* src/c.py: a second session served by the same process                   *)
(***************************************************************************)
peer_Dispatching == c_peer.turn.phase = "turn" /\ may_dispatch(c_peer.turn.steps)

\* One executed tool call of the second session.
peer_Executed(u, agent, result) ==
    c_peer' = [userdata |-> u, agent |-> agent, result |-> result,
               turn |-> [c_peer.turn EXCEPT !.steps = @ + 1]]

peer_transfer_to_agent(name) ==
    /\ peer_Dispatching
    /\ name \in c_TransferTargets(c_peer.agent)
    /\ peer_Executed([c_peer.userdata EXCEPT !.current_agent = name,
                                             !.agents = agents_after(@, name)],
                     c_peer.userdata.agents[name],
                     Handoff(name, << "Transferring to", name, "agent" >>))
    /\ UNCHANGED mock_db

peer_collect_resident_info(name, apartment) ==
    /\ peer_Dispatching
    /\ c_peer.agent = "visitor"
    /\ peer_Executed([c_peer.userdata EXCEPT !.resident_name = name,
                                             !.apartment_number = apartment],
                     c_peer.agent,
                     Reply(<< "Recorded resident", name, "in apartment", apartment >>))
    /\ UNCHANGED mock_db

peer_check_resident ==
    /\ peer_Dispatching
    /\ c_peer.agent = "visitor"
    /\ peer_Executed(c_peer.userdata, c_peer.agent,
         IF << c_peer.userdata.resident_name, c_peer.userdata.apartment_number >>
               \in mock_db.residents
         THEN Reply(<< "Resident verified. SMS sent. Please wait for the resident to approve your visit." >>)
         ELSE Reply(<< "Resident not found. Please check the information and try again." >>))
    /\ UNCHANGED mock_db

peer_verify_delivery ==
    /\ peer_Dispatching
    /\ c_peer.agent = "delivery"
    /\ peer_Executed(c_peer.userdata, c_peer.agent,
         IF << c_peer.userdata.resident_name, c_peer.userdata.apartment_number >>
               \in mock_db.residents
         THEN Reply(<< "Delivery verified. Main door opened. Please leave package in lobby." >>)
         ELSE Reply(<< "Recipient not found. Please check the information." >>))
    /\ UNCHANGED mock_db

peer_log_maintenance(description) ==
    /\ peer_Dispatching
    /\ c_peer.agent = "maintenance"
    /\ Len(mock_db.maintenance_requests) < MaxRequests
    /\ peer_Executed([c_peer.userdata EXCEPT !.maintenance_needs = description],
                     c_peer.agent,
                     Reply(<< "Request logged. Maintenance team will contact you shortly." >>))
    /\ mock_db' = [mock_db EXCEPT !.maintenance_requests = Append(@, description)]

peer_list_vacancies ==
    /\ peer_Dispatching
    /\ c_peer.agent = "rental"
    /\ peer_Executed(c_peer.userdata, c_peer.agent,
                     Reply(<< "Available apartments:" >> \o mock_db.vacant_apartments))
    /\ UNCHANGED mock_db

peer_UserTurn ==
    /\ c_peer.turn.phase = "idle"
    /\ c_peer' = [c_peer EXCEPT !.turn = [phase |-> "turn", steps |-> 0]]
    /\ UNCHANGED mock_db

peer_PlainReply ==
    /\ c_peer.turn.phase = "turn"
    /\ c_peer' = [c_peer EXCEPT !.turn.phase = "idle", !.result = Reply(<< "reply" >>)]
    /\ UNCHANGED mock_db

peer_CapReached ==
    /\ c_peer.turn.phase = "turn"
    /\ ~may_dispatch(c_peer.turn.steps)
    /\ c_peer' = [c_peer EXCEPT !.turn.phase = "idle"]
    /\ UNCHANGED mock_db

NextPeer ==
    \/ peer_UserTurn /\ UNCHANGED p_frame
    \/ peer_PlainReply /\ UNCHANGED p_frame
    \/ peer_CapReached /\ UNCHANGED p_frame
    \/ \E a \in c_TransferTargets(c_peer.agent) :
         peer_transfer_to_agent(a) /\ UNCHANGED p_frame
    \/ \E n \in ResidentArgs, a \in ApartmentArgs :
         peer_collect_resident_info(n, a) /\ UNCHANGED p_frame
    \/ peer_check_resident /\ UNCHANGED p_frame
    \/ peer_verify_delivery /\ UNCHANGED p_frame
    \/ \E d \in Descriptions : peer_log_maintenance(d) /\ UNCHANGED p_frame
    \/ peer_list_vacancies /\ UNCHANGED p_frame

\* Two sessions of c.py in one process, their steps interleaved.
NextC2 == NextC \/ NextPeer

(***************************************************************************)
(* src/d.py                                                                *)
(***************************************************************************)
MaxItems == 17              \* chat items created in one session
keep_last_n_messages == 6

UserDataDInit ==
    [resident_name |-> None, apartment_number |-> None, visitor_name |-> None,
     visit_reason |-> None, maintenance_needs |-> None, prev_agent |-> None,
     agents |-> AgentsTable]

\* Python's `x or d`.
Or(x, d) == IF Truthy(x) THEN x ELSE d

\* UserData.summarize (d.py:34-46): the dict it builds ...
data(u) ==
    [resident |-> [name |-> Or(u.resident_name, "unknown"),
                   apartment |-> Or(u.apartment_number, "unknown")],
     visitor |-> [name |-> Or(u.visitor_name, "unknown"),
                  reason |-> Or(u.visit_reason, "unknown")],
     maintenance |-> Or(u.maintenance_needs, "none")]

\* ... and yaml.dump of it: one line per key, the keys of each mapping in
\* sorted order (sort_keys defaults to True), scalars written so that distinct
\* strings give distinct lines.
yaml_dump(d) ==
    << << "maintenance", d.maintenance >>,
       << "resident" >>,
       << "apartment", d.resident.apartment >>,
       << "name", d.resident.name >>,
       << "visitor" >>,
       << "name", d.visitor.name >>,
       << "reason", d.visitor.reason >> >>

summarize_m(u) == yaml_dump(data(u)) \o << << "prev_agent", u.prev_agent >> >>
summarize(u) == yaml_dump(data(u))

ClassName(a) ==
    CASE a = "main" -> "MainAgent"
      [] a = "visitor" -> "VisitorAgent"
      [] a = "delivery" -> "DeliveryAgent"
      [] a = "maintenance" -> "MaintenanceAgent"
      [] a = "rental" -> "RentalAgent"

\* Chat items.  A function_call and its function_call_output share call_id.
Message(id, role, content) ==
    [id |-> id, type |-> "message", role |-> role, call_id |-> 0, content |-> content]
FunctionCall(id, name) ==
    [id |-> id, type |-> "function_call", role |-> None, call_id |-> id, content |-> << name >>]
FunctionCallOutput(id, call_id) ==
    [id |-> id, type |-> "function_call_output", role |-> None, call_id |-> call_id,
     content |-> << >>]

\* The two items one executed tool call adds to the active agent's context.
ToolItems(id, name) == << FunctionCall(id, name), FunctionCallOutput(id + 1, id) >>

\* The system message on_enter adds (d.py:63-66).
DigestItem(id, a, u) == Message(id, "system", << "You are", ClassName(a), summarize(u) >>)

Ids(items) == { items[i].id : i \in 1..Len(items) }

HasPartner(items, it) ==
    \/ it.type = "message"
    \/ \E j \in 1..Len(items) :
         items[j].call_id = it.call_id /\ items[j].type # it.type

\* BaseAgent._truncate_chat_ctx: its body is elided in src/d.py (d.py:79-80);
\* modelled from the reconciler policy: keep the last n items, then drop every
\* kept half of a tool-call/result pair whose partner is outside the window.
truncate_chat_ctx_window(items, n) ==
    LET first == IF Len(items) > n THEN Len(items) - n + 1 ELSE 1
    IN SubSeq(items, first, Len(items))
truncate_chat_ctx_pairs(items, n) ==
    SelectSeq(items, LAMBDA it : HasPartner(items, it))
truncate_chat_ctx(items, n) ==
    LET first == IF Len(items) > n THEN Len(items) - n + 1 ELSE 1
        window == SubSeq(items, first, Len(items))
    IN SelectSeq(window, LAMBDA it : HasPartner(window, it))

\* d.py:56-60: the truncated prior history minus the items whose id the
\* destination context already holds.
carried_items_nodedupe(dest, prior) ==
    truncate_chat_ctx(prior, keep_last_n_messages)
carried_items(dest, prior) ==
    LET items_copy == truncate_chat_ctx(prior, keep_last_n_messages)
        existing_ids == Ids(dest)
    IN SelectSeq(items_copy, LAMBDA it : it.id \notin existing_ids)

\* BaseAgent.on_enter: the context handed to update_chat_ctx.  prev is
\* userdata.prev_agent; no agent of d.py has a RealtimeModel llm.
on_enter_ctx_digest_first(dest, prior, prev, digest) ==
    IF prev # None
    THEN dest \o << digest >> \o carried_items(dest, prior)
    ELSE dest \o << digest >>
on_enter_ctx(dest, prior, prev, digest) ==
    IF prev # None
    THEN dest \o carried_items(dest, prior) \o << digest >>
    ELSE dest \o << digest >>

\* d.py:72-74: what _transfer_to_agent stores in userdata.prev_agent.
prev_agent_after_m(current_agent, name) == name
prev_agent_after(current_agent, name) == current_agent

\* What UserData keeps of the transitions made (d.py:24-32): there is no list
\* of records, only prev_agent, which each transfer overwrites.  As records:
\* none before the first transfer, then the one from prev_agent to the active
\* agent.
HandoffRecords(u, current_agent) ==
    IF u.prev_agent = None
    THEN << >>
    ELSE << [source |-> u.prev_agent, target |-> current_agent] >>

\* The @function_tool methods each agent class defines.  DeliveryAgent,
\* MaintenanceAgent and RentalAgent list self.transfer_main in tools=, but only
\* VisitorAgent defines it: they have no transfer tool.
TransferTargets(a) ==
    CASE a = "main" -> Specialists
      [] a = "visitor" -> {"main"}
      [] OTHER -> {}

OtherTools(a) ==
    CASE a = "visitor" -> {"collect_info", "verify_resident"}
      [] a = "delivery" -> {"verify_delivery"}
      [] a = "maintenance" -> {"log_request"}
      [] a = "rental" -> {"list_vacancies"}
      [] OTHER -> {}

TransferTool(t) ==
    CASE t = "main" -> "transfer_main"
      [] t = "visitor" -> "transfer_visitor"
      [] t = "delivery" -> "transfer_delivery"
      [] t = "maintenance" -> "transfer_maintenance"
      [] t = "rental" -> "transfer_rental"

ToolNames(a) == OtherTools(a) \cup { TransferTool(t) : t \in TransferTargets(a) }

Dispatching == d_turn.phase = "turn" /\ may_dispatch(d_turn.steps)

\* What every executed non-transfer tool call does around the tool body: the
\* call and its output join the active agent's context, one more tool step.
Executed(name, result, u) ==
    /\ Dispatching
    /\ name \in OtherTools(d_agent)
    /\ next_id + 1 <= MaxItems
    /\ chat_ctx' = [chat_ctx EXCEPT ![d_agent] = @ \o ToolItems(next_id, name)]
    /\ next_id' = next_id + 2
    /\ d_turn' = [d_turn EXCEPT !.steps = @ + 1]
    /\ d_result' = result
    /\ d_userdata' = u
    /\ UNCHANGED << d_agent, d_entered >>

\* d.py:70-74: the UserData _transfer_to_agent leaves: prev_agent is assigned,
\* nothing else.
transfer_userdata_m(u, current_agent, name) ==
    [u EXCEPT !.prev_agent = prev_agent_after(current_agent, name),
              !.agents = agents_after(@, name),
              !.resident_name = None, !.apartment_number = None]
transfer_userdata(u, current_agent, name) ==
    [u EXCEPT !.prev_agent = prev_agent_after(current_agent, name),
              !.agents = agents_after(@, name)]

\* d.py:75: the message _transfer_to_agent returns with the agent, for the
\* reasoning engine to pass on.  No registered id holds a "_" for
\* name.replace to change.
transfer_message_m(name) == << "reply" >>
transfer_message(name) == << "Transferring to", name >>

\* A transfer_* tool: _transfer_to_agent, then the session switches to the
\* returned agent and runs its on_enter.
transfer_to_agent(name) ==
    LET current_agent == d_agent
        next_agent == d_userdata.agents[name]
        u == transfer_userdata(d_userdata, current_agent, name)
        \* the transfer call and its output join the old agent's context
        ctxs == [chat_ctx EXCEPT ![current_agent] =
                    @ \o ToolItems(next_id, TransferTool(name))]
        digest == DigestItem(next_id + 2, name, u)
        dest == ctxs[name]
        ctx == on_enter_ctx(dest, ctxs[u.prev_agent], u.prev_agent, digest)
    IN /\ Dispatching
       /\ name \in TransferTargets(d_agent)
       /\ next_id + 2 <= MaxItems
       /\ d_userdata' = u
       /\ d_agent' = next_agent
       /\ chat_ctx' = [ctxs EXCEPT ![name] = ctx]
       /\ next_id' = next_id + 3
       /\ d_turn' = [d_turn EXCEPT !.steps = @ + 1, !.hops = @ + 1]
       /\ d_result' = Handoff(name, transfer_message(name))
       /\ d_entered' = [agent |-> name, digest |-> digest.id,
                        carried |-> Ids(ctx) \ (Ids(dest) \cup {digest.id})]

collect_info(name, apartment) ==
    Executed("collect_info",
             Reply(<< "Recorded", name, "in apartment", apartment >>),
             [d_userdata EXCEPT !.resident_name = name, !.apartment_number = apartment])

verify_resident ==
    Executed("verify_resident",
             IF Truthy(d_userdata.resident_name) /\ Truthy(d_userdata.apartment_number)
             THEN Reply(<< "SMS sent to resident. Please wait for approval." >>)
             ELSE Reply(<< "Resident not found. Please check information." >>),
             d_userdata)

verify_delivery ==
    Executed("verify_delivery",
             IF Truthy(d_userdata.resident_name) /\ Truthy(d_userdata.apartment_number)
             THEN Reply(<< "Door opened. Please leave package in lobby." >>)
             ELSE Reply(<< "Recipient not found. Please check information." >>),
             d_userdata)

log_request(description) ==
    Executed("log_request",
             Reply(<< "Request logged. Maintenance team will respond shortly." >>),
             [d_userdata EXCEPT !.maintenance_needs = description])

list_vacancies ==
    Executed("list_vacancies",
             Reply(<< "Available: A101, B202. Owner has been notified." >>),
             d_userdata)

\* The turn loop of the session (AgentSession, max_tool_steps = 5): a user
\* input opens a turn; the reasoning engine then answers in plain text, which
\* ends the turn, or requests a tool call of the active agent.
UserTurn ==
    /\ d_turn.phase = "idle"
    /\ next_id <= MaxItems
    /\ chat_ctx' = [chat_ctx EXCEPT ![d_agent] = Append(@, Message(next_id, "user", << "input" >>))]
    /\ next_id' = next_id + 1
    /\ d_turn' = [phase |-> "turn", steps |-> 0, hops |-> 0, capped |-> FALSE,
                  dropped |-> None]
    /\ UNCHANGED << d_userdata, d_agent, d_result, d_entered >>

PlainReply ==
    /\ d_turn.phase = "turn"
    /\ next_id <= MaxItems
    /\ chat_ctx' = [chat_ctx EXCEPT ![d_agent] =
                       Append(@, Message(next_id, "assistant", << "reply" >>))]
    /\ next_id' = next_id + 1
    /\ d_turn' = [d_turn EXCEPT !.phase = "idle"]
    /\ d_result' = Reply(<< "reply" >>)
    /\ UNCHANGED << d_userdata, d_agent, d_entered >>

\* A tool call requested at the cap is not dispatched: the turn ends with what
\* was last produced.
CapReached(tool) ==
    /\ d_turn.phase = "turn"
    /\ ~may_dispatch(d_turn.steps)
    /\ tool \in ToolNames(d_agent)
    /\ d_turn' = [d_turn EXCEPT !.phase = "idle", !.capped = TRUE, !.dropped = tool]
    /\ UNCHANGED << d_userdata, d_agent, chat_ctx, next_id, d_result, d_entered >>

\* entrypoint of d.py: the session starts on agents["main"], whose on_enter
\* (prev_agent unset) adds the digest message.
InitD ==
    /\ d_userdata = UserDataDInit
    /\ d_agent = EntryAgent
    /\ chat_ctx = [a \in AgentIds |->
                     IF a = EntryAgent
                     THEN on_enter_ctx(<< >>, << >>, None, DigestItem(1, a, UserDataDInit))
                     ELSE << >>]
    /\ next_id = 2
    /\ d_turn = [phase |-> "idle", steps |-> 0, hops |-> 0, capped |-> FALSE,
                 dropped |-> None]
    /\ d_result = NoCallYet
    /\ d_entered = [agent |-> EntryAgent, digest |-> 1, carried |-> {}]

NextD ==
    \/ UserTurn /\ UNCHANGED d_frame
    \/ PlainReply /\ UNCHANGED d_frame
    \/ \E a \in AgentIds : transfer_to_agent(a) /\ UNCHANGED d_frame
    \/ \E n \in ResidentArgs, a \in ApartmentArgs :
         collect_info(n, a) /\ UNCHANGED d_frame
    \/ verify_resident /\ UNCHANGED d_frame
    \/ verify_delivery /\ UNCHANGED d_frame
    \/ \E d \in Descriptions : log_request(d) /\ UNCHANGED d_frame
    \/ list_vacancies /\ UNCHANGED d_frame
    \/ \E t \in ToolNames(d_agent) : CapReached(t) /\ UNCHANGED d_frame

(***************************************************************************)
(* The context construction of on_enter on drawn inputs                    *)
(***************************************************************************)
MaxHist == 10               \* length of a drawn prior history

\* Shapes of a history: plain messages, a tool call with its output, and two
\* parallel tool calls followed by their two outputs.  off is the distance to
\* the partner item.
MsgTok == [type |-> "message", off |-> 0]
PairToks == << [type |-> "function_call", off |-> 1],
               [type |-> "function_call_output", off |-> -1] >>
ParallelToks == << [type |-> "function_call", off |-> 2],
                   [type |-> "function_call", off |-> 2],
                   [type |-> "function_call_output", off |-> -2],
                   [type |-> "function_call_output", off |-> -2] >>

RECURSIVE Shapes(_)
Shapes(n) ==
    IF n = 0 THEN { << >> }
    ELSE { Append(h, MsgTok) : h \in Shapes(n - 1) }
         \cup (IF n >= 2 THEN { h \o PairToks : h \in Shapes(n - 2) } ELSE {})
         \cup (IF n >= 4 THEN { h \o ParallelToks : h \in Shapes(n - 4) } ELSE {})

ItemsOf(shape) ==
    [i \in 1..Len(shape) |->
        IF shape[i].type = "message" THEN Message(i, "user", << "input" >>)
        ELSE IF shape[i].type = "function_call" THEN FunctionCall(i, "tool")
        ELSE FunctionCallOutput(i, i + shape[i].off)]

Histories == UNION { { ItemsOf(h) : h \in Shapes(n) } : n \in 0..MaxHist }

Closed(items) == \A i \in 1..Len(items) : HasPartner(items, items[i])

InitT0 ==
    /\ t_prior = << >>
    /\ t_dest = << >>
    /\ t_carried = << >>
    /\ t_ctx = << >>
    /\ t_done = FALSE

\* The prior agent's history, and a destination context that already holds a
\* leading part of it (what an earlier handoff carried the other way).
InitT ==
    /\ t_prior \in Histories
    /\ t_dest \in { SubSeq(t_prior, 1, j) : j \in 0..Len(t_prior) }
    /\ Closed(t_dest)
    /\ t_carried = << >>
    /\ t_ctx = << >>
    /\ t_done = FALSE

ApplyOnEnter ==
    /\ ~t_done
    /\ t_carried' = carried_items(t_dest, t_prior)
    /\ t_ctx' = on_enter_ctx(t_dest, t_prior, "visitor",
                             DigestItem(Len(t_prior) + 1, "main", UserDataDInit))
    /\ t_done' = TRUE
    /\ UNCHANGED << t_prior, t_dest >>

NextT == ApplyOnEnter /\ UNCHANGED t_frame

(***************************************************************************)
(* src/a.py                                                                *)
(***************************************************************************)
MaxCalls == 3               \* calls of decorated functions in one job
MaxEvents == 2              \* metrics events in one job

Raised == [kind |-> "raised", message |-> "exception"]
Value(v) == [kind |-> "value", message |-> v]

DoormanDataInit ==
    [intent |-> None, resident_name |-> None, apartment |-> None,
     visitor_name |-> None, maintenance_issue |-> None, vacancies |-> None]

\* The names api_metrics.track_call is given at a.py:75-95.
CallNames == {"db_query", "sms_send", "door_open"}

MetricsInit == [c \in CallNames |-> [success |-> 0, error |-> 0, observed |-> 0]]

\* ConversationLogger: the header line and an interaction line.
Header == [session_id |-> "room", role |-> None, content |-> None]
Entry(role, content) == [session_id |-> None, role |-> role, content |-> content]

\* log_interaction (a.py:116-126): appends the entry; a failed write is logged
\* and swallowed.
log_interaction(log, role, content, written) ==
    IF written THEN Append(log, Entry(role, content)) ELSE log

\* The intent values the reasoning engine may pass, and str.lower on them.
Intents == {"visitor", "Delivery", "maintenance", "rental", "party"}
lower(x) == IF x = "Delivery" THEN "delivery" ELSE x

agent_map ==
    [i \in {"visitor", "delivery", "maintenance", "rental"} |->
        CASE i = "visitor" -> "VisitorAgent"
          [] i = "delivery" -> "DeliveryAgent"
          [] i = "maintenance" -> "MaintenanceAgent"
          [] i = "rental" -> "RentalAgent"]

\* handle_errors (a.py:129-143): what the wrapper does with the room when the
\* wrapped function raises, and what the caller gets.
room_after_error(room) == "disconnected"
outcome_after_error == "raised"

\* APIMetrics.track_call (a.py:40-58) around a service function: the success or
\* error counter, the duration in the finally clause; an exception of the
\* function is raised again.
track_call_m(name, tool, value, raises) ==
    /\ a_phase = "running"
    /\ a_call.n < MaxCalls
    /\ a_metrics' = [a_metrics EXCEPT ![name] =
                        [success |-> IF raises THEN @.success ELSE @.success + 1,
                         error |-> IF raises THEN @.error + 1 ELSE @.error,
                         observed |-> @.observed + 1]]
    /\ a_call' = [n |-> a_call.n + 1, tool |-> tool, arg |-> None,
                  outcome |-> IF raises THEN "raised" ELSE "returned"]
    /\ a_result' = IF raises THEN Raised ELSE Value(value)
    /\ a_userdata' = [a_userdata EXCEPT !.vacancies = value]
    /\ UNCHANGED << a_phase, a_agent, a_room, a_log, a_usage >>

track_call(name, tool, value, raises) ==
    /\ a_phase = "running"
    /\ a_call.n < MaxCalls
    /\ a_metrics' = [a_metrics EXCEPT ![name] =
                        [success |-> IF raises THEN @.success ELSE @.success + 1,
                         error |-> IF raises THEN @.error + 1 ELSE @.error,
                         observed |-> @.observed + 1]]
    /\ a_call' = [n |-> a_call.n + 1, tool |-> tool, arg |-> None,
                  outcome |-> IF raises THEN "raised" ELSE "returned"]
    /\ a_result' = IF raises THEN Raised ELSE Value(value)
    /\ UNCHANGED << a_phase, a_userdata, a_agent, a_room, a_log, a_usage >>

\* The services of a.py:73-98.  Their bodies stand for the external database,
\* SMS gateway and door hardware, which may fail.
find_resident(raises) == track_call("db_query", "find_resident", "True", raises)
get_vacancies(raises) == track_call("db_query", "get_vacancies", "501, 302, 105", raises)
send(raises) == track_call("sms_send", "send", "True", raises)
open(raises) == track_call("door_open", "open", "True", raises)

\* prewarm (a.py:178-185): loads the VAD model or raises.
prewarm(ok) ==
    /\ a_phase = "new"
    /\ a_phase' = IF ok THEN "prewarmed" ELSE "failed"
    /\ UNCHANGED << a_userdata, a_agent, a_room, a_log, a_metrics, a_call, a_result, a_usage >>

\* entrypoint (a.py:187-233) up to session.start; fail names the step that
\* raises, if any: ctx.connect (190), AgentSession(...) (193-199),
\* ConversationLogger(...) (202), the metrics set-up (205-218), session.start
\* (220-229).  The except clause logs and raises again.
EntryFailures == {"none", "connect", "session", "logger", "metrics", "start"}

entrypoint_m(fail) ==
    /\ a_phase = "prewarmed"
    /\ a_phase' = "started"
    /\ a_room' = IF fail = "connect" THEN "none" ELSE "connected"
    /\ a_userdata' = DoormanDataInit
    /\ a_log' = IF fail \in {"connect", "session", "logger"} THEN << >> ELSE << Header >>
    /\ a_agent' = "MainAgent"
    /\ UNCHANGED << a_metrics, a_call, a_result, a_usage >>

entrypoint(fail) ==
    /\ a_phase = "prewarmed"
    /\ a_phase' = CASE fail = "none" -> "started"
                    [] fail = "start" -> "start_failed"
                    [] OTHER -> "failed"
    /\ a_room' = IF fail = "connect" THEN "none" ELSE "connected"
    /\ a_userdata' = DoormanDataInit
    /\ a_log' = IF fail \in {"connect", "session", "logger"} THEN << >> ELSE << Header >>
    /\ a_agent' = IF fail = "none" THEN "MainAgent" ELSE None
    /\ UNCHANGED << a_metrics, a_call, a_result, a_usage >>

\* MainAgent.on_enter under handle_errors (a.py:153-155): generate_reply may
\* raise.
on_enter(raises, written) ==
    /\ a_phase = "started"
    /\ a_phase' = "running"
    /\ a_log' = log_interaction(a_log, "agent", "on_enter", written)
    /\ a_call' = [n |-> a_call.n, tool |-> "on_enter", arg |-> None,
                  outcome |-> IF raises THEN outcome_after_error ELSE "returned"]
    /\ a_room' = IF raises THEN room_after_error(a_room) ELSE a_room
    /\ a_result' = IF raises THEN Raised ELSE Value(None)
    /\ UNCHANGED << a_userdata, a_agent, a_metrics, a_usage >>

\* MainAgent.route_conversation under handle_errors (a.py:157-173).  The
\* classes agent_map names are not defined in a.py; naming or constructing one
\* may raise, after intent is stored.  A returned (agent, message) tuple makes
\* the agent the active one; (None, message) returns no agent.
route_conversation(intent, raises, written) ==
    LET stored == lower(intent)
        known == stored \in DOMAIN agent_map
    IN /\ a_phase = "running"
       /\ a_room = "connected"
       /\ a_agent = "MainAgent"
       /\ a_call.n < MaxCalls
       /\ a_log' = log_interaction(a_log, "agent", "route_conversation", written)
       /\ a_userdata' = [a_userdata EXCEPT !.intent = stored]
       /\ a_call' = [n |-> a_call.n + 1, tool |-> "route_conversation", arg |-> intent,
                     outcome |-> IF raises THEN outcome_after_error ELSE "returned"]
       /\ IF raises
          THEN /\ a_room' = room_after_error(a_room)
               /\ a_result' = Raised
               /\ a_agent' = a_agent
          ELSE /\ a_room' = a_room
               /\ a_result' = IF known
                              THEN Handoff(agent_map[stored], "Connecting to agent")
                              ELSE Handoff(None, "Invalid request type")
               /\ a_agent' = IF known THEN agent_map[stored] ELSE a_agent
       /\ UNCHANGED << a_phase, a_metrics, a_usage >>

\* The handler of "metrics_collected" (a.py:206-209, e.py:165-168): logs the
\* metrics and adds them to the usage collector.
on_metrics_collected ==
    /\ a_phase \in {"started", "running"}
    /\ a_usage < MaxEvents
    /\ a_usage' = a_usage + 1
    /\ UNCHANGED << a_phase, a_userdata, a_agent, a_room, a_log, a_metrics, a_call, a_result >>

\* The job ends (participant gone or worker stopping): the shutdown callback
\* of a.py:217-218 logs the usage summary.
shutdown ==
    /\ a_phase \in {"started", "running"}
    /\ a_phase' = "closed"
    /\ a_room' = "disconnected"
    /\ UNCHANGED << a_userdata, a_agent, a_log, a_metrics, a_call, a_result, a_usage >>

InitA ==
    /\ a_phase = "new"
    /\ a_userdata = DoormanDataInit
    /\ a_agent = None
    /\ a_room = "none"
    /\ a_log = << >>
    /\ a_metrics = MetricsInit
    /\ a_call = [n |-> 0, tool |-> "none", arg |-> None, outcome |-> "none"]
    /\ a_result = NoCall
    /\ a_usage = 0

NextA ==
    \/ \E ok \in BOOLEAN : prewarm(ok) /\ UNCHANGED a_frame
    \/ \E f \in EntryFailures : entrypoint(f) /\ UNCHANGED a_frame
    \/ \E r, w \in BOOLEAN : on_enter(r, w) /\ UNCHANGED a_frame
    \/ \E i \in Intents, r, w \in BOOLEAN : route_conversation(i, r, w) /\ UNCHANGED a_frame
    \/ \E r \in BOOLEAN : find_resident(r) /\ UNCHANGED a_frame
    \/ \E r \in BOOLEAN : get_vacancies(r) /\ UNCHANGED a_frame
    \/ \E r \in BOOLEAN : send(r) /\ UNCHANGED a_frame
    \/ \E r \in BOOLEAN : open(r) /\ UNCHANGED a_frame
    \/ on_metrics_collected /\ UNCHANGED a_frame
    \/ shutdown /\ UNCHANGED a_frame

(***************************************************************************)
(* UserData.summarize of src/d.py on drawn field values                    *)
(***************************************************************************)
\* Field values: unset, empty, the placeholder texts of summarize, and values.
ResidentValues == {None, "", "unknown", "John Doe"}
ApartmentValues == {None, "A101"}
VisitorValues == {None, "Alice"}
MaintenanceValues == {None, "none", "leaking tap"}
PrevAgentValues == {None, "visitor"}

UserDatas ==
    { [resident_name |-> r, apartment_number |-> a, visitor_name |-> v,
       visit_reason |-> None, maintenance_needs |-> m, prev_agent |-> p] :
         r \in ResidentValues, a \in ApartmentValues, v \in VisitorValues,
         m \in MaintenanceValues, p \in PrevAgentValues }

InitS0 ==
    /\ s_u1 = UserDataDInit
    /\ s_u2 = UserDataDInit
    /\ s_digest1 = << >>
    /\ s_digest2 = << >>
    /\ s_done = FALSE

InitS ==
    /\ s_u1 \in UserDatas
    /\ s_u2 \in UserDatas
    /\ s_digest1 = << >>
    /\ s_digest2 = << >>
    /\ s_done = FALSE

\* summarize() called on each state; it reads the fields and assigns none.
ApplySummarize ==
    /\ ~s_done
    /\ s_digest1' = summarize(s_u1)
    /\ s_digest2' = summarize(s_u2)
    /\ s_done' = TRUE
    /\ UNCHANGED << s_u1, s_u2 >>

NextS == ApplySummarize /\ UNCHANGED s_frame

(***************************************************************************)
(* src/e.py: the tools statement by statement on the session's event loop  *)
(*                                                                         *)
(* The tools are coroutines run by one asyncio event loop.  A coroutine    *)
(* keeps the loop from the statement it is at until it awaits something    *)
(* that suspends it, or returns; whatever else is due (applying a user     *)
(* input, a requested teardown, delivering a reply) runs only when no      *)
(* coroutine keeps the loop.                                               *)
(***************************************************************************)
MaxInputs == 2              \* user inputs in one session
MaxTasks == 2               \* tool coroutines in flight

NoReply == [kind |-> "noreply", message |-> None]

\* Whether a tool coroutine at pc is suspended at an await.  No tool body of
\* e.py (e.py:57-129) holds an await: _check_resident_db, _send_sms,
\* _get_vacant_units and _open_door are plain functions.
suspends_m(tool, pc) == pc = "wrote_name"
suspends_door_m(tool, pc) == pc = "wrote_apartment"
suspends(tool, pc) == FALSE

LoopFree == \A i \in 1..Len(l_tasks) : suspends(l_tasks[i].tool, l_tasks[i].pc)

\* The coroutine that runs next: the one started last.
Top == l_tasks[Len(l_tasks)]
At(tool, pc) == Len(l_tasks) > 0 /\ Top.tool = tool /\ Top.pc = pc
Advance(pc) == l_tasks' = [l_tasks EXCEPT ![Len(l_tasks)].pc = pc]

Effect(e) == [effect |-> e, closing |-> l_session = "closing"]

\* `return`: the coroutine ends; its value waits to be delivered.
Return(result, d, effects) ==
    /\ l_tasks' = SubSeq(l_tasks, 1, Len(l_tasks) - 1)
    /\ l_pending' = result
    /\ l_doorman' = d
    /\ l_effects' = l_effects \cup effects
    /\ UNCHANGED << l_inbox, l_applied, l_turn, l_session, l_delivered, l_aborted >>

\* A statement that writes fields and goes on.
Write(d, pc) ==
    /\ Advance(pc)
    /\ l_doorman' = d
    /\ UNCHANGED << l_inbox, l_applied, l_turn, l_session, l_effects, l_pending,
                    l_delivered, l_aborted >>

\* The user speaks: the input reaches the session whatever the loop is doing.
InputArrives ==
    /\ l_session # "closed"
    /\ l_inbox + l_applied < MaxInputs
    /\ l_inbox' = l_inbox + 1
    /\ UNCHANGED << l_doorman, l_tasks, l_applied, l_turn, l_session, l_effects,
                    l_pending, l_delivered, l_aborted >>

\* The session takes an input that arrived: it starts a reasoning step.
ApplyInput ==
    /\ LoopFree
    /\ l_session = "open"
    /\ l_inbox > 0
    /\ l_inbox' = l_inbox - 1
    /\ l_applied' = l_applied + 1
    /\ l_turn' = TRUE
    /\ UNCHANGED << l_doorman, l_tasks, l_session, l_effects, l_pending, l_delivered,
                    l_aborted >>

\* The reasoning step requests a tool call: its coroutine is started.
Dispatch(tool, a, b) ==
    /\ LoopFree
    /\ l_session = "open"
    /\ l_turn
    /\ Len(l_tasks) < MaxTasks
    /\ l_tasks' = Append(l_tasks, [tool |-> tool, pc |-> "start", a |-> a, b |-> b])
    /\ UNCHANGED << l_doorman, l_inbox, l_applied, l_turn, l_session, l_effects,
                    l_pending, l_delivered, l_aborted >>

\* The reply of the turn is spoken into the room while the participant is there.
Deliver ==
    /\ LoopFree
    /\ l_session = "open"
    /\ l_turn
    /\ l_pending # NoReply
    /\ l_delivered' = l_delivered + 1
    /\ l_pending' = NoReply
    /\ l_turn' = FALSE
    /\ UNCHANGED << l_doorman, l_tasks, l_inbox, l_applied, l_session, l_effects,
                    l_aborted >>

\* The participant leaves or the job is stopped.
RequestTeardown ==
    /\ l_session = "open"
    /\ l_session' = "closing"
    /\ UNCHANGED << l_doorman, l_tasks, l_inbox, l_applied, l_turn, l_effects,
                    l_pending, l_delivered, l_aborted >>

\* The teardown takes place once the loop is free: coroutines that are
\* suspended are cancelled, an undelivered reply is dropped.
CompleteTeardown ==
    /\ LoopFree
    /\ l_session = "closing"
    /\ l_session' = "closed"
    /\ l_aborted' = l_aborted \cup { l_tasks[i] : i \in 1..Len(l_tasks) }
    /\ l_tasks' = << >>
    /\ l_pending' = NoReply
    /\ l_turn' = FALSE
    /\ UNCHANGED << l_doorman, l_inbox, l_applied, l_effects, l_delivered >>

\* handle_purpose (e.py:57-73).
run_handle_purpose ==
    /\ At("handle_purpose", "start")
    /\ IF Top.a \notin AllowedPurposes
       THEN Return(Reply("Invalid purpose. Please choose from visitor/delivery/maintenance/rental"),
                   l_doorman, {})
       ELSE Return(Reply("Please provide details"),
                   reset_session_data([l_doorman EXCEPT !.current_purpose = Top.a]), {})

\* collect_resident_info (e.py:75-97): the checks and the first write ...
run_collect_resident_info_1 ==
    /\ At("collect_resident_info", "start")
    /\ IF ~Truthy(Top.a)
       THEN Return(Reply("Please provide resident's FULL NAME"), l_doorman, {})
       ELSE IF ~Truthy(Top.b)
       THEN Return(Reply("Please provide apartment NUMBER"),
                   [l_doorman EXCEPT !.resident_name = Top.a], {})
       ELSE IF ~check_resident_db(Top.a, Top.b)
       THEN Return(Reply("Resident not found. Please check name and apartment number"),
                   reset_resident_data(l_doorman), {})
       ELSE Write([l_doorman EXCEPT !.resident_name = Top.a], "wrote_name")

\* ... the second write (e.py:91) ...
run_collect_resident_info_2 ==
    /\ At("collect_resident_info", "wrote_name")
    /\ Write([l_doorman EXCEPT !.apartment_number = Top.b], "wrote_apartment")

\* ... and the branch on the purpose (e.py:93-97).
run_collect_resident_info_3 ==
    /\ At("collect_resident_info", "wrote_apartment")
    /\ IF l_doorman.current_purpose = "visitor"
       THEN Return(Reply("Resident verified. Please provide VISITOR NAME and REASON for visit"),
                   l_doorman, {})
       ELSE IF l_doorman.current_purpose = "delivery"
       THEN Return(Reply("Delivery approved. Door opened. Have a nice day!"),
                   l_doorman, {Effect("door")})
       ELSE Return(NoneResult, l_doorman, {})

\* handle_visitor_details (e.py:99-112): the checks, then _send_sms and return.
run_handle_visitor_details_1 ==
    /\ At("handle_visitor_details", "start")
    /\ IF ~Truthy(Top.a)
       THEN Return(Reply("Please provide VISITOR NAME"), l_doorman, {})
       ELSE IF ~Truthy(Top.b)
       THEN Return(Reply("Please provide REASON for visit"),
                   [l_doorman EXCEPT !.visitor_name = Top.a], {})
       ELSE Write(l_doorman, "notifying")

run_handle_visitor_details_2 ==
    /\ At("handle_visitor_details", "notifying")
    /\ Return(Reply("Resident notified. They'll be with you shortly. Thank you!"),
              l_doorman, {Effect("sms")})

\* handle_maintenance (e.py:114-122).
run_handle_maintenance ==
    /\ At("handle_maintenance", "start")
    /\ IF ~Truthy(Top.a)
       THEN Return(Reply("Please describe the MAINTENANCE ISSUE"), l_doorman, {})
       ELSE Return(Reply("Maintenance request recorded. Technician will contact resident shortly"),
                   l_doorman, {})

\* handle_rental (e.py:124-129).
run_handle_rental ==
    /\ At("handle_rental", "start")
    /\ Return(Reply("Current vacancies: A101, B202, C303. Owner has been notified. Thank you!"),
              l_doorman, {Effect("sms")})

\* The tool calls the reasoning step may request.
LoopCalls ==
    { << "handle_purpose", p, None >> : p \in {"visitor", "delivery", "party"} }
    \cup { << "collect_resident_info", n, a >> : n \in {None, "John Doe"}, a \in {"", "A101"} }
    \cup { << "handle_visitor_details", v, r >> : v \in {None, "Alice"}, r \in {"", "package drop-off"} }
    \cup { << "handle_maintenance", i, None >> : i \in {None, "leaking tap"} }
    \cup { << "handle_rental", None, None >> }

InitL ==
    /\ l_doorman = DoormanInit
    /\ l_tasks = << >>
    /\ l_inbox = 0
    /\ l_applied = 0
    /\ l_turn = FALSE
    /\ l_session = "open"
    /\ l_effects = {}
    /\ l_pending = NoReply
    /\ l_delivered = 0
    /\ l_aborted = {}

NextL ==
    \/ InputArrives /\ UNCHANGED l_frame
    \/ ApplyInput /\ UNCHANGED l_frame
    \/ \E c \in LoopCalls : Dispatch(c[1], c[2], c[3]) /\ UNCHANGED l_frame
    \/ Deliver /\ UNCHANGED l_frame
    \/ RequestTeardown /\ UNCHANGED l_frame
    \/ CompleteTeardown /\ UNCHANGED l_frame
    \/ run_handle_purpose /\ UNCHANGED l_frame
    \/ run_collect_resident_info_1 /\ UNCHANGED l_frame
    \/ run_collect_resident_info_2 /\ UNCHANGED l_frame
    \/ run_collect_resident_info_3 /\ UNCHANGED l_frame
    \/ run_handle_visitor_details_1 /\ UNCHANGED l_frame
    \/ run_handle_visitor_details_2 /\ UNCHANGED l_frame
    \/ run_handle_maintenance /\ UNCHANGED l_frame
    \/ run_handle_rental /\ UNCHANGED l_frame

(***************************************************************************)
(* src/a.py: ConversationLogger over the transcript files                  *)
(***************************************************************************)
MaxTime == 5                \* clock readings, one per operation

\* ctx.room.name of the rooms jobs are started for.
SessionIds == {"room-1", "room-2"}
Roles == {"agent", "user"}
Contents == {"on_enter", "route_conversation"}

\* The two shapes of a line (a.py:110-113 and 117-121).
HeaderRecord(session_id, start_time) ==
    [session_id |-> session_id, start_time |-> start_time]
InteractionEntry(timestamp, role, content) ==
    [timestamp |-> timestamp, role |-> role, content |-> content]

NoFile == [exists |-> FALSE, lines |-> << >>]

\* _ensure_header (a.py:107-114): writes the header when the file is not there.
ensure_header_m(file, session_id, now) ==
    [exists |-> TRUE, lines |-> << HeaderRecord(session_id, now) >>]
ensure_header(file, session_id, now) ==
    IF ~file.exists
    THEN [exists |-> TRUE, lines |-> << HeaderRecord(session_id, now) >>]
    ELSE file

\* open(log_file, "a") and one write (a.py:123-124): creates the file when it
\* is not there.
append_line(file, line) == [exists |-> TRUE, lines |-> Append(file.lines, line)]

\* ConversationLogger(session_id) (a.py:102-105).
ConversationLogger(session_id) ==
    /\ g_clock < MaxTime
    /\ g_clock' = g_clock + 1
    /\ g_files' = [g_files EXCEPT ![session_id] = ensure_header(@, session_id, g_clock)]
    /\ g_op' = [op |-> "ConversationLogger", session_id |-> session_id,
                loggers |-> [g_op.loggers EXCEPT ![session_id] = @ + 1]]

\* ConversationLogger.log_interaction (a.py:116-126) of a logger constructed
\* for session_id; a write that fails is logged and nothing is written.
g_log_interaction(session_id, role, content, written) ==
    /\ g_clock < MaxTime
    /\ g_op.loggers[session_id] > 0
    /\ g_clock' = g_clock + 1
    /\ g_files' = IF written
                  THEN [g_files EXCEPT ![session_id] =
                           append_line(@, InteractionEntry(g_clock, role, content))]
                  ELSE g_files
    /\ g_op' = [op |-> "log_interaction", session_id |-> session_id,
                loggers |-> g_op.loggers]

InitG ==
    /\ g_files = [id \in SessionIds |-> NoFile]
    /\ g_clock = 0
    /\ g_op = [op |-> "none", session_id |-> None, loggers |-> [id \in SessionIds |-> 0]]

NextG ==
    \/ \E id \in SessionIds : ConversationLogger(id) /\ UNCHANGED g_frame
    \/ \E id \in SessionIds, r \in Roles, c \in Contents, w \in BOOLEAN :
          g_log_interaction(id, r, c, w) /\ UNCHANGED g_frame

Init == InitE /\ InitC /\ InitD /\ InitT0 /\ InitA /\ InitS0 /\ InitL /\ InitG
InitDrawn == InitE /\ InitC /\ InitD /\ InitT /\ InitA /\ InitS0 /\ InitL /\ InitG
InitDrawnS == InitE /\ InitC /\ InitD /\ InitT0 /\ InitA /\ InitS /\ InitL /\ InitG

SpecE == Init /\ [][NextE]_vars
SpecC == Init /\ [][NextC]_vars
SpecC2 == Init /\ [][NextC2]_vars
SpecD == Init /\ [][NextD]_vars
SpecT == InitDrawn /\ [][NextT]_vars
SpecA == Init /\ [][NextA]_vars
SpecS == InitDrawnS /\ [][NextS]_vars
SpecL == Init /\ [][NextL]_vars
SpecG == Init /\ [][NextG]_vars

(***************************************************************************)
(* Claims                                                                  *)
(***************************************************************************)
Pos(items, id) == CHOOSE i \in 1..Len(items) : items[i].id = id

\* An item of a tool-call/result pair whose other half is not in items.
Orphaned(items, i) ==
    /\ items[i].type # "message"
    /\ ~\E j \in 1..Len(items) :
          /\ j # i
          /\ items[j].call_id = items[i].call_id
          /\ items[j].type # "message"
          /\ items[j].type # items[i].type

\* The positions of prior that the window of the last keep_last_n_messages covers.
InWindow(prior, i) == i \in 1..Len(prior) /\ i > Len(prior) - 6

\* C1 (src/c.py): in every reachable state userdata.current_agent is a
\* registered agent id and names the session's active agent, from session
\* start on.
C1_CurrentAgentNamesActive ==
    /\ c_userdata.current_agent \in AgentIds
    /\ c_userdata.current_agent = c_agent

\* C2 (src/d.py): prev_agent is unset before the first transfer; every change
\* of the active agent stores the agent that was active before it in
\* prev_agent; prev_agent is never the present active agent.
C2_PrevAgentIsLastDistinct ==
    /\ [](/\ d_userdata.prev_agent # d_agent
          /\ (d_entered.digest = 1 => d_userdata.prev_agent = None)
          /\ (d_entered.digest # 1 => d_userdata.prev_agent \in AgentIds))
    /\ [][d_agent' # d_agent => d_userdata'.prev_agent = d_agent]_vars

C2_Witness ==
    /\ d_agent = "main"
    /\ d_userdata.prev_agent = "visitor"
    /\ d_turn.hops = 2

\* C3: the context on_enter builds holds no orphaned tool item: every
\* function_call in it has its function_call_output in it and conversely,
\* wherever the pairs of the prior history sit relative to the window.
C3_PairOrNeither ==
    t_done => \A i \in 1..Len(t_ctx) : ~Orphaned(t_ctx, i)

\* A prior history longer than the window whose first kept position is the
\* output of a call that fell outside: the output is not carried.
C3_Witness ==
    /\ t_done
    /\ t_dest = << >>
    /\ Len(t_prior) > 6
    /\ t_prior[Len(t_prior) - 5].type = "function_call_output"
    /\ ~InWindow(t_prior, t_prior[Len(t_prior) - 5].call_id)
    /\ t_prior[Len(t_prior) - 5].id \notin Ids(t_ctx)
    /\ Len(t_carried) > 0

\* C4: the carried suffix has at most 6 items, each among the last 6 items of
\* the prior history, in their original order; no item of a pair that lies
\* wholly or partly outside the window is carried.
C4_BoundedSuffix ==
    t_done =>
      /\ Len(t_carried) <= 6
      /\ \A k \in 1..Len(t_carried) :
            \E i \in 1..Len(t_prior) : InWindow(t_prior, i) /\ t_prior[i] = t_carried[k]
      /\ \A k \in 1..(Len(t_carried) - 1) :
            Pos(t_prior, t_carried[k].id) < Pos(t_prior, t_carried[k + 1].id)
      /\ \A i \in 1..Len(t_prior) :
            (t_prior[i].type # "message" /\ ~InWindow(t_prior, i)) =>
               \A k \in 1..Len(t_carried) : t_carried[k].call_id # t_prior[i].call_id

\* 10 prior items with a call/output pair at positions 3 and 4: items 5..10
\* are carried and nothing of the pair is.
C4_Witness ==
    /\ t_done
    /\ t_dest = << >>
    /\ Len(t_prior) = 10
    /\ t_prior[3].type = "function_call"
    /\ t_prior[4].type = "function_call_output"
    /\ t_prior[4].call_id = t_prior[3].call_id
    /\ Len(t_carried) = 6
    /\ \A k \in 1..Len(t_carried) : t_carried[k].call_id # t_prior[3].call_id

\* C5 (src/d.py): no chat item id occurs twice in any agent's context, after
\* any sequence of handoffs back and forth.
C5_NoDuplicateIds ==
    \A a \in AgentIds :
       \A i, j \in 1..Len(chat_ctx[a]) :
          chat_ctx[a][i].id = chat_ctx[a][j].id => i = j

\* A return to main: an item in the window of the visitor's history is already
\* in main's context and was not carried again.
C5_Witness ==
    /\ d_result.kind = "handoff"
    /\ d_agent = "main"
    /\ d_userdata.prev_agent = "visitor"
    /\ \E i \in 1..Len(chat_ctx["visitor"]) :
          /\ InWindow(chat_ctx["visitor"], i)
          /\ chat_ctx["visitor"][i].id \in Ids(chat_ctx["main"])
          /\ chat_ctx["visitor"][i].id \notin d_entered.carried

\* C6 as claimed: in the context built on a handoff the digest message
\* precedes every carried-over item.
C6_DigestPrecedesCarried ==
    \A id \in d_entered.carried :
       Pos(chat_ctx[d_entered.agent], d_entered.digest)
          < Pos(chat_ctx[d_entered.agent], id)

\* C6 as amended: the context built on a handoff is the entered agent's own
\* items, then the carried-over items, then the digest message: the digest
\* follows every carried-over item and every earlier item of the agent.
C6_DigestFollowsCarried ==
    LET ctx == chat_ctx[d_entered.agent]
        digest == Pos(ctx, d_entered.digest)
    IN /\ \A id \in d_entered.carried : Pos(ctx, id) < digest
       /\ \A i \in 1..Len(ctx) :
             (ctx[i].id < d_entered.digest /\ ctx[i].id \notin d_entered.carried) =>
                /\ i < digest
                /\ \A id \in d_entered.carried : i < Pos(ctx, id)
       /\ ctx[digest].role = "system"
       /\ \A i \in 1..Len(ctx) : i > digest => ctx[i].id > d_entered.digest

C6_Witness ==
    /\ d_result.kind = "handoff"
    /\ d_entered.carried # {}
    /\ Len(chat_ctx[d_entered.agent]) > Cardinality(d_entered.carried) + 1

FallbackApology == << "Sorry, something went wrong. Returning to the main agent." >>

\* C7 as claimed (src/d.py): when a sixth handoff is requested in a turn that
\* carried out five, the reply is the fallback apology and the entry agent is
\* made the active agent.
C7_SixthHandoffFallsBack ==
    (/\ d_turn.capped
     /\ d_turn.hops = 5
     /\ d_turn.dropped \in { TransferTool(t) : t \in AgentIds })
    => (d_agent = EntryAgent /\ d_result.message = FallbackApology)

AskReplies ==
    { Reply("Please provide resident's FULL NAME"),
      Reply("Please provide apartment NUMBER"),
      Reply("Please provide VISITOR NAME"),
      Reply("Please provide REASON for visit"),
      Reply("Please describe the MAINTENANCE ISSUE") }

Missing(x) == x \in {None, ""}

C9_MissingArgumentReprompts ==
    /\ e_call.tool = "collect_resident_info" =>
         /\ Missing(e_call.a) => e_result = Reply("Please provide resident's FULL NAME")
         /\ (~Missing(e_call.a) /\ Missing(e_call.b)) =>
               /\ e_result = Reply("Please provide apartment NUMBER")
               /\ doorman.resident_name = e_call.a
         /\ (~Missing(e_call.a) /\ ~Missing(e_call.b)) =>
               /\ e_result \notin AskReplies
               /\ doorman.resident_name = e_call.a
               /\ doorman.apartment_number = e_call.b
    /\ e_call.tool = "handle_visitor_details" =>
         /\ Missing(e_call.a) => e_result = Reply("Please provide VISITOR NAME")
         /\ (~Missing(e_call.a) /\ Missing(e_call.b)) =>
               /\ e_result = Reply("Please provide REASON for visit")
               /\ doorman.visitor_name = e_call.a
         /\ (~Missing(e_call.a) /\ ~Missing(e_call.b)) =>
               /\ e_result = Reply("Resident notified. They'll be with you shortly. Thank you!")
               /\ \E x \in e_effects : x.effect = "sms"
    /\ e_call.tool = "handle_maintenance" =>
         /\ Missing(e_call.a) => e_result = Reply("Please describe the MAINTENANCE ISSUE")
         /\ ~Missing(e_call.a) =>
               e_result = Reply("Maintenance request recorded. Technician will contact resident shortly")

\* A call that gives the name and an empty apartment: the name is kept and the
\* reply asks for the apartment.
C9_Witness ==
    /\ e_call = [tool |-> "collect_resident_info", a |-> "John Doe", b |-> ""]
    /\ e_result = Reply("Please provide apartment NUMBER")
    /\ doorman.resident_name = "John Doe"
    /\ doorman.apartment_number = None
    /\ doorman.current_purpose = "visitor"

\* The replies with which check_resident and verify_delivery of c.py report that
\* the lookup found nobody.
NotFoundReplies ==
    { Reply(<< "Resident not found. Please check the information and try again." >>),
      Reply(<< "Recipient not found. Please check the information." >>) }

\* C11 (src/c.py): a verification that finds nobody answers with the failure
\* reply and leaves the handoff bookkeeping alone: the step changes neither
\* userdata.current_agent nor the active agent nor any collected field, and the
\* turn goes on with the same agent.
C11_VerificationFailureFrame ==
    [][(c_turn'.steps = c_turn.steps + 1 /\ c_result' \in NotFoundReplies) =>
          (/\ c_userdata' = c_userdata
           /\ c_agent' = c_agent
           /\ c_turn'.phase = "turn"
           /\ mock_db' = mock_db)]_vars

\* The visitor agent looked up a resident who is not in the database.
C11_Witness ==
    /\ c_result = Reply(<< "Resident not found. Please check the information and try again." >>)
    /\ c_agent = "visitor"
    /\ c_userdata.current_agent = "visitor"
    /\ c_userdata.resident_name = "Bob Ray"

\* C10 as claimed (src/e.py): every executed tool call returns a plain reply, a
\* handoff directive that names a registered agent, or a terminal directive.
C10_OutcomeClassified ==
    /\ e_result.kind \in {"nocall", "reply", "handoff", "terminal"}
    /\ e_result.kind = "handoff" => e_result.target \in AgentIds

\* C12 as claimed (src/a.py): an exception raised inside a decorated call is
\* not fatal: the room stays connected, the active agent stays, and the caller
\* gets a reply rather than the exception.
C12_ProviderErrorNonFatal ==
    [][(a_call' # a_call /\ a_call'.outcome = "raised") =>
          (/\ a_room' = a_room
           /\ a_agent' = a_agent
           /\ a_result'.kind = "reply")]_vars

\* C13 as claimed (src/a.py): a routing request whose intent names no agent of
\* agent_map is rejected with the session state as before the request: the
\* collected fields, the active agent and the room are unchanged and the
\* result carries the rejection message.
C13_UnknownAgentRejected ==
    [][(/\ a_call'.n = a_call.n + 1
        /\ a_call'.tool = "route_conversation"
        /\ a_call'.outcome = "returned"
        /\ lower(a_call'.arg) \notin DOMAIN agent_map) =>
          (/\ a_userdata' = a_userdata
           /\ a_agent' = a_agent
           /\ a_room' = a_room
           /\ a_result'.message = "Invalid request type")]_vars

\* The transfer calls carried out so far: each left its function_call item in
\* the context of the agent that made it.
TransferCalls(a) ==
    { i \in 1..Len(chat_ctx[a]) :
        /\ chat_ctx[a][i].type = "function_call"
        /\ chat_ctx[a][i].content[1] \in { TransferTool(t) : t \in AgentIds } }
TransfersMade == UNION { { chat_ctx[a][i].id : i \in TransferCalls(a) } : a \in AgentIds }

\* C14 as claimed (src/d.py): the session keeps one record per transition made,
\* and the last record's target is the active agent.
C14_OneRecordPerTransition ==
    LET log == HandoffRecords(d_userdata, d_agent)
    IN /\ Len(log) = Cardinality(TransfersMade)
       /\ Len(log) > 0 => log[Len(log)].target = d_agent

\* C15 as claimed (src/c.py): whenever a specialist agent is the active agent,
\* it has a transfer back to the agent it was reached from (the entry agent,
\* the only agent with transfers to the specialists).
C15_ReturnToPrevious ==
    c_agent \in Specialists => EntryAgent \in c_TransferTargets(c_agent)

\* The collected fields of a UserData state.
Fields(u) ==
    << u.resident_name, u.apartment_number, u.visitor_name, u.visit_reason,
       u.maintenance_needs >>

\* C16 as claimed (src/d.py): the digest determines the field values: two
\* states with the same digest have the same field values, so a parser can
\* reconstruct the fields from the digest.
C16_DigestDeterminesFields ==
    s_done => (s_digest1 = s_digest2 => Fields(s_u1) = Fields(s_u2))

Keys(digest) == [i \in 1..Len(digest) |-> digest[i][1]]

C18_SessionsIndependent ==
    [][<< c_userdata, c_agent, c_result, c_turn >>' # << c_userdata, c_agent, c_result, c_turn >>
          => (mock_db' = mock_db /\ c_peer' = c_peer)]_vars

C21_ShutdownWritesSummary ==
    a_phase = "closed" =>
        (/\ Len(a_log) > 0
         /\ a_log[Len(a_log)].role = "summary")

IsHeader(r) == DOMAIN r = {"session_id", "start_time"}
IsEntry(r) == DOMAIN r = {"timestamp", "role", "content"}
IsPrefix(s, t) == Len(s) <= Len(t) /\ SubSeq(t, 1, Len(s)) = s

C23_StartupFailurePropagates ==
    [][/\ a_phase' = "failed" => a_agent' = None
       /\ a_phase = "failed" => a_phase' = "failed"
       /\ a_agent' # None =>
             (/\ a_phase' \in {"started", "running", "closed"}
              /\ a_room' # "none"
              /\ Len(a_log') >= 1)
      ]_vars

\* The room was connected and constructing the session or the logger failed.
C23_Witness ==
    /\ a_phase = "failed"
    /\ a_room = "connected"
    /\ a_log = << >>
    /\ a_agent = None

ServiceCalls == {"find_resident", "get_vacancies", "send", "open"}

\* C24 (src/a.py): a metrics or logging observer leaves the session state as
\* it was.  A step of the metrics_collected handler, of the track_call wrapper
\* around a service, or of the handle_errors wrapper around on_enter changes
\* no collected field and not the active agent; around route_conversation the
\* wrapper adds nothing to what the function itself writes (intent), and when
\* the function raises the active agent stays.
C24_ObserversLeaveState ==
    [][/\ a_usage' # a_usage => a_userdata' = a_userdata /\ a_agent' = a_agent
       /\ (a_call' # a_call /\ a_call'.tool \in ServiceCalls \cup {"on_enter"})
             => a_userdata' = a_userdata /\ a_agent' = a_agent
       /\ (a_call' # a_call /\ a_call'.tool = "route_conversation")
             => /\ a_userdata' = [a_userdata EXCEPT !.intent = lower(a_call'.arg)]
                /\ a_call'.outcome = "raised" => a_agent' = a_agent
      ]_vars

\* A field was collected, metrics were gathered, and service calls were counted
\* (one failed), with the field as the handler wrote it.
C24_Witness ==
    /\ a_userdata.intent = "visitor"
    /\ a_agent = "VisitorAgent"
    /\ a_usage > 0
    /\ a_metrics["sms_send"].error > 0
    /\ a_call.tool = "send"
    /\ a_call.outcome = "raised"

\* C25 (src/d.py, src/c.py): the agents table is the one entrypoint filled
\* before the session started: in every reachable state it has the same ids
\* and every id names the same agent.
C25_RegistryFrozen ==
    /\ DOMAIN d_userdata.agents = AgentIds
    /\ d_userdata.agents = AgentsTable
    /\ DOMAIN c_userdata.agents = AgentIds
    /\ c_userdata.agents = AgentsTable

\* Two handoffs (each with its on_enter) and a field-writing tool call have
\* taken place.
C25_Witness ==
    /\ d_turn.hops >= 2
    /\ d_agent = "visitor"
    /\ d_userdata.prev_agent = "main"
    /\ d_userdata.resident_name # None

Lines(digest) == { digest[i] : i \in 1..Len(digest) }

\* C27 (src/d.py): a handoff leaves every collected field as it was, and the
\* digest the entered agent's on_enter adds is the summary of those same
\* fields: a collected resident name, apartment, visitor name, reason and
\* maintenance need each show in it with the value collected.
C27_HandoffKeepsFields ==
    [][d_turn'.hops = d_turn.hops + 1 =>
          (/\ Fields(d_userdata') = Fields(d_userdata)
           /\ \E i \in 1..Len(chat_ctx'[d_agent']) :
                 LET it == chat_ctx'[d_agent'][i]
                 IN /\ it.id = d_entered'.digest
                    /\ it.role = "system"
                    /\ it.content[2] = ClassName(d_agent')
                    /\ Truthy(d_userdata.resident_name) =>
                          << "name", d_userdata.resident_name >> \in Lines(it.content[3])
                    /\ Truthy(d_userdata.apartment_number) =>
                          << "apartment", d_userdata.apartment_number >> \in Lines(it.content[3])
                    /\ Truthy(d_userdata.visitor_name) =>
                          << "name", d_userdata.visitor_name >> \in Lines(it.content[3])
                    /\ Truthy(d_userdata.visit_reason) =>
                          << "reason", d_userdata.visit_reason >> \in Lines(it.content[3])
                    /\ Truthy(d_userdata.maintenance_needs) =>
                          << "maintenance", d_userdata.maintenance_needs >> \in Lines(it.content[3]))
      ]_vars

\* The visitor agent collected the resident, control went back to main and on
\* to another agent: two handoffs after the collection, the fields still there.
C27_Witness ==
    /\ d_agent \in {"delivery", "maintenance", "rental"}
    /\ d_userdata.prev_agent = "main"
    /\ Truthy(d_userdata.resident_name)
    /\ Truthy(d_userdata.apartment_number)
    /\ d_result.kind = "handoff"

\* C28 as claimed (src/d.py): a reply saying the door was opened is given only
\* by the delivery agent and only for a recorded name and apartment that are
\* those of a resident.
C28_DoorOnlyForVerifiedDelivery ==
    (/\ d_result.kind = "reply"
     /\ d_result.message = << "Door opened. Please leave package in lobby." >>)
    => (/\ d_agent = "delivery"
        /\ << d_userdata.resident_name, d_userdata.apartment_number >> \in Residents)

\* C29 as claimed (src/e.py): the resident-notification SMS is sent only while
\* the purpose is visitor and a resident is recorded (name and apartment set).
C29_NotificationNeedsVerifiedResident ==
    (\E s \in e_effects : s.effect = "sms" /\ s.to = "RESIDENT_PHONE")
    => (/\ doorman.current_purpose = "visitor"
        /\ Truthy(doorman.resident_name)
        /\ Truthy(doorman.apartment_number))

\* C30 as claimed (src/e.py): when an apartment is stored a name is stored too,
\* and the stored pair is always one that a single call recorded: a step
\* either leaves the pair as it is or is a collect_resident_info call that
\* was given exactly that name and that apartment.
C30_NameAndApartmentFromOneCall ==
    [][doorman'.apartment_number # None =>
          (/\ doorman'.resident_name # None
           /\ \/ (/\ doorman'.resident_name = doorman.resident_name
                  /\ doorman'.apartment_number = doorman.apartment_number)
              \/ (/\ e_call'.tool = "collect_resident_info"
                  /\ e_call'.a = doorman'.resident_name
                  /\ e_call'.b = doorman'.apartment_number))
      ]_vars

\* C31 (src/e.py): a handle_purpose call with a purpose that is not allowed
\* leaves every field as it was and returns the invalid-purpose message; with
\* an allowed purpose it stores the purpose and leaves resident_name,
\* apartment_number, visitor_name, reason and maintenance_issue unset,
\* whatever they held before.
C31_PurposeChangeClearsData ==
    [][e_call'.tool = "handle_purpose" =>
          IF e_call'.a \notin {"visitor", "delivery", "maintenance", "rental"}
          THEN /\ doorman' = doorman
               /\ e_result' = Reply("Invalid purpose. Please choose from visitor/delivery/maintenance/rental")
          ELSE /\ doorman'.current_purpose = e_call'.a
               /\ doorman'.resident_name = None
               /\ doorman'.apartment_number = None
               /\ doorman'.visitor_name = None
               /\ doorman'.reason = None
               /\ doorman'.maintenance_issue = None
               /\ e_result' # Reply("Invalid purpose. Please choose from visitor/delivery/maintenance/rental")
      ]_vars

\* Data was collected under the visitor purpose and a handle_purpose call with
\* a purpose that is not allowed has left it in place.
C31_Witness ==
    /\ e_call = [tool |-> "handle_purpose", a |-> "party", b |-> None]
    /\ doorman.current_purpose = "visitor"
    /\ doorman.resident_name = "John Doe"
    /\ doorman.apartment_number = "A101"
    /\ doorman.visitor_name = "Alice"

====
